---- MODULE Spec2Model ----
(***************************************************************************)
(* A model of src/app.py (hunzan/ompps): the SQLite tables, the request    *)
(* handlers that read and write them, the startup schema evolution and the *)
(* retention sweep.                                                        *)
(*                                                                         *)
(* Conventions                                                             *)
(*  - A text is a sequence of one-character strings, so that str.strip()   *)
(*    is computed and not assumed.                                         *)
(*  - Time is counted in days.  now_iso()/today_ymd() format the clock as  *)
(*    a fixed-width zero-padded digit string; stored timestamps are those  *)
(*    strings and SQL compares them as strings.                            *)
(*  - The two category texts '定向' and '生活' are written as the          *)
(*    one-character texts <<"orientation">> and <<"daily_living">>.        *)
(*  - Every handler opens its own connection.  A `with get_conn() as conn` *)
(*    block is one SQLite transaction: its writes become visible to other  *)
(*    connections at commit, an exception rolls all of them back, and only *)
(*    one connection can hold the write lock at a time.                    *)
(***************************************************************************)
EXTENDS Integers, Sequences, FiniteSets, TLC

VARIABLES
    db,        \* the committed contents of the database file
    tx,        \* per client: the uncommitted working copy of an open transaction
    req,       \* per client: the request being handled and its position
    now,       \* the wall clock, in days
    schema,    \* the shape of the tables (which columns/tables/indexes exist)
    boot       \* position of the startup code (init_db, cleanup) and its results

vars == <<db, tx, req, now, schema, boot>>

----------------------------------------------------------------------------
(* Bounds of the model *)

NumCodes == 2          \* size of the code space drawn by make_code (really 1,000,000)
StartDay == 100        \* the day the clock starts at
MaxNow == 161          \* last day the clock reaches
CreateWorkspaces == 2  \* workspaces rows ever inserted, two concurrent submissions
MainWorkspaces == 1    \* workspaces rows ever inserted, whole application
MainGroups == 3        \* long_term_groups rows ever inserted, whole application
MainRecords == 1       \* records rows ever inserted, whole application
EditGroups == 4        \* long_term_groups rows ever inserted, editing one workspace
EditRecords == 1       \* records rows ever inserted, editing one workspace
LedgerRecords == 2     \* records rows ever inserted, two workspaces
MigWorkspaces == 2     \* workspace ids of a database left by an earlier version
MigRuns == 2           \* runs of init_db in a row
ResubmitGroups == 4    \* long_term_groups rows ever inserted, repeated submissions
ActivityGroups == 3    \* long_term_groups rows ever inserted, edits days apart
ActivityRecords == 1   \* records rows ever inserted, edits days apart
MigCrashRuns == 3      \* runs of init_db in a row, interrupted ones included

(* Program constants *)

RETENTION_DAYS == 60

Orientation == <<"orientation">>      \* the text '定向'
DailyLiving == <<"daily_living">>     \* the text '生活'
Categories == {Orientation, DailyLiving}

NULL == <<"NULL">>
None == [none |-> TRUE]

Clients == {1, 2}
Starter == 0                       \* the process running the startup code
Procs == Clients \cup {Starter}

----------------------------------------------------------------------------
(* Texts and str.strip() *)

Whitespace == {" "}

RECURSIVE LStrip(_)
LStrip(s) == IF s = <<>> THEN s
             ELSE IF Head(s) \in Whitespace THEN LStrip(Tail(s)) ELSE s

RECURSIVE RStrip(_)
RStrip(s) == IF s = <<>> THEN s
             ELSE IF s[Len(s)] \in Whitespace THEN RStrip(SubSeq(s, 1, Len(s) - 1)) ELSE s

Strip(s) == RStrip(LStrip(s))

Blank == <<>>

(* Decimal digits: int(), str() and zero-padded formatting *)

DigitVal(ch) == CASE ch = "0" -> 0 [] ch = "1" -> 1 [] ch = "2" -> 2 [] ch = "3" -> 3
                  [] ch = "4" -> 4 [] ch = "5" -> 5 [] ch = "6" -> 6 [] ch = "7" -> 7
                  [] ch = "8" -> 8 [] ch = "9" -> 9

DigitChar(n) == CASE n = 0 -> "0" [] n = 1 -> "1" [] n = 2 -> "2" [] n = 3 -> "3"
                  [] n = 4 -> "4" [] n = 5 -> "5" [] n = 6 -> "6" [] n = 7 -> "7"
                  [] n = 8 -> "8" [] n = 9 -> "9"

DecimalDigits == {"0", "1", "2", "3", "4", "5", "6", "7", "8", "9"}

RECURSIVE ParseInt(_)
ParseInt(s) == IF s = <<>> THEN 0
               ELSE 10 * ParseInt(SubSeq(s, 1, Len(s) - 1)) + DigitVal(s[Len(s)])

RECURSIVE FormatInt(_)
FormatInt(n) == IF n < 10 THEN <<DigitChar(n)>>
                ELSE Append(FormatInt(n \div 10), DigitChar(n % 10))

(* strftime: three zero-padded decimal digits of the day count *)
strftime(t) == <<DigitChar((t \div 100) % 10), DigitChar((t \div 10) % 10), DigitChar(t % 10)>>

now_iso(t) == strftime(t)
today_ymd(t) == strftime(t)

(* SQL text comparison a < b: lexicographic on characters *)
RECURSIVE TextLess(_, _)
TextLess(a, b) ==
    IF b = <<>> THEN FALSE
    ELSE IF a = <<>> THEN TRUE
    ELSE IF Head(a) = Head(b) THEN TextLess(Tail(a), Tail(b))
    ELSE DigitVal(Head(a)) < DigitVal(Head(b))

(* make_code: f"{randbelow(1_000_000):06d}" *)
make_code(n) == <<"0", "0", "0", "0", "0", DigitChar(n)>>

Codes == {make_code(n) : n \in 0 .. NumCodes - 1}

----------------------------------------------------------------------------
(* The database *)

EmptyDb == [workspaces |-> {}, objectives |-> {}, long_term_groups |-> {},
            short_terms |-> {}, records |-> {}, objectives_new_tmp |-> {},
            seq |-> [workspaces |-> 0, long_term_groups |-> 0, short_terms |-> 0, records |-> 0]]

NoTx == [open |-> FALSE]

Idle == [kind |-> "idle", pc |-> "idle", args |-> None, loc |-> None, out |-> None]

DeleteWithoutCascade(d, ids) == [d EXCEPT !.workspaces = {w \in @ : w.id \notin ids}]

(* ON DELETE CASCADE from workspaces, and from long_term_groups to short_terms *)
DeleteWorkspaces(d, ids) ==
    LET gone == {g \in d.long_term_groups : g.workspace_id \in ids} IN
    [d EXCEPT !.workspaces = {w \in @ : w.id \notin ids},
              !.objectives = {o \in @ : o.workspace_id \notin ids},
              !.long_term_groups = @ \ gone,
              !.short_terms = {s \in @ : s.group_id \notin {g.id : g \in gone}},
              !.records = {r \in @ : r.workspace_id \notin ids}]

(* FOREIGN KEY (workspace_id) REFERENCES workspaces(id), enforced because
   get_conn turns PRAGMA foreign_keys ON *)
fk_workspace(d, ws_id) == \E w \in d.workspaces : w.id = ws_id

(* No other connection holds the write lock *)
CanWrite(c) == \A o \in Procs \ {c} : ~tx[o].open

----------------------------------------------------------------------------
(* Workspace store *)

Matches(W, sn, ag) == {w \in W : w.student_name = sn /\ w.agency = ag}

find_workspace_by_student(W, student_name, agency) ==
    LET sn == Strip(student_name)
        ag == Strip(agency)
        m == Matches(W, sn, ag) IN
    IF sn = Blank \/ ag = Blank THEN None
    ELSE IF m = {} THEN None
    ELSE CHOOSE w \in m : \A o \in m : o.id <= w.id

get_workspace_by_code(W, code) ==
    IF \E w \in W : w.code = code THEN CHOOSE w \in W : w.code = code ELSE None

ux_student_agency_absent(W, sn, ag) == FALSE

(* the unique index created by init_db: an INSERT of (sn, ag) conflicts *)
ux_student_agency(W, sn, ag) == Matches(W, sn, ag) # {}

code_unique(W, code) == \E w \in W : w.code = code

----------------------------------------------------------------------------
(* POST /student: find the workspace of (student, agency) or create it *)

StudentNames == {<<"A">>, <<" ", "A">>, <<"B">>, <<" ">>}
Agencies == {<<"X">>, <<"X", " ">>}

(* the handler returns (or raises): out.via is the step that produced the response *)
Respond(c, status, code) ==
    req' = [req EXCEPT ![c].pc = "done", ![c].loc = None,
                       ![c].out = [status |-> status, code |-> code, via |-> req[c].pc]]

SubmitStudent(c) ==
    /\ req[c].kind = "idle"
    /\ \E sn \in StudentNames, ag \in Agencies :
          req' = [req EXCEPT ![c] = [kind |-> "student", pc |-> "find",
                                     args |-> [student_name |-> Strip(sn), agency |-> Strip(ag)],
                                     loc |-> None, out |-> None]]
    /\ UNCHANGED <<db, tx, now, schema, boot>>

(* lines 357-366 *)
StudentFind(c) ==
    /\ req[c].kind = "student" /\ req[c].pc = "find"
    /\ LET a == req[c].args
           ws == find_workspace_by_student(db.workspaces, a.student_name, a.agency) IN
       IF a.student_name = Blank \/ a.agency = Blank
       THEN Respond(c, "flash", Blank)
       ELSE IF ws # None
       THEN Respond(c, "redirect", ws.code)
       ELSE req' = [req EXCEPT ![c].pc = "make_code"]
    /\ UNCHANGED <<db, tx, now, schema, boot>>

(* create_workspace, lines 238-240: draw codes until one is not in the table *)
CreateMakeCode(c) ==
    /\ req[c].kind = "student" /\ req[c].pc = "make_code"
    /\ \E code \in Codes :
          /\ ~code_unique(db.workspaces, code)
          /\ req' = [req EXCEPT ![c].pc = "insert", ![c].loc = [code |-> code]]
    /\ UNCHANGED <<db, tx, now, schema, boot>>

(* what student() does with sqlite3.IntegrityError, lines 370-371 *)
OnIntegrityError(c) == req' = [req EXCEPT ![c].pc = "refind"]

(* create_workspace, lines 242-247: INSERT, SELECT the row back, commit *)
CreateInsert(c, maxWorkspaces) ==
    /\ req[c].kind = "student" /\ req[c].pc = "insert"
    /\ CanWrite(c)
    /\ db.seq.workspaces < maxWorkspaces
    /\ LET a == req[c].args
           code == req[c].loc.code
           id == db.seq.workspaces + 1
           row == [id |-> id, code |-> code, student_name |-> a.student_name,
                   agency |-> a.agency, created_at |-> now_iso(now), updated_at |-> now_iso(now)] IN
       IF code_unique(db.workspaces, code) \/ ux_student_agency(db.workspaces, a.student_name, a.agency)
       THEN OnIntegrityError(c) /\ UNCHANGED db
       ELSE /\ db' = [db EXCEPT !.workspaces = @ \cup {row}, !.seq.workspaces = id]
            /\ req' = [req EXCEPT ![c].pc = "defaults", ![c].loc = row]
    /\ UNCHANGED <<tx, now, schema, boot>>

(* the rows init_workspace_defaults writes for one workspace, lines 313-329 *)
DefaultGoal == <<"S">>     \* "感官知覺/動作能力"

DefaultObjectives(d, ws_id, t) ==
    d.objectives \cup
      {[workspace_id |-> ws_id, category |-> cat, target_date |-> today_ymd(t), teaching_goal |-> Blank] :
          cat \in {k \in Categories : ~\E o \in d.objectives : o.workspace_id = ws_id /\ o.category = k}}

DefaultGroups(d, ws_id) ==
    d.long_term_groups \cup
      {[id |-> d.seq.long_term_groups + 1, workspace_id |-> ws_id, category |-> Orientation,
        long_term_goal |-> DefaultGoal, ord |-> 1],
       [id |-> d.seq.long_term_groups + 2, workspace_id |-> ws_id, category |-> DailyLiving,
        long_term_goal |-> DefaultGoal, ord |-> 1]}

(* init_workspace_defaults(ws["id"]), line 369 *)
InitWorkspaceDefaults(c) ==
    /\ req[c].kind = "student" /\ req[c].pc = "defaults"
    /\ CanWrite(c)
    /\ LET ws == req[c].loc IN
       IF ~fk_workspace(db, ws.id)
       THEN OnIntegrityError(c) /\ UNCHANGED db
       ELSE /\ db' = [db EXCEPT !.objectives = DefaultObjectives(db, ws.id, now),
                                !.long_term_groups = DefaultGroups(db, ws.id),
                                !.seq.long_term_groups = @ + 2]
            /\ Respond(c, "redirect", ws.code)
    /\ UNCHANGED <<tx, now, schema, boot>>

(* line 371, then ws["code"] at line 374 *)
StudentRefind(c) ==
    /\ req[c].kind = "student" /\ req[c].pc = "refind"
    /\ LET a == req[c].args
           ws == find_workspace_by_student(db.workspaces, a.student_name, a.agency) IN
       IF ws = None THEN Respond(c, "error", Blank) ELSE Respond(c, "redirect", ws.code)
    /\ UNCHANGED <<db, tx, now, schema, boot>>

Student(c, maxWorkspaces) ==
    \/ SubmitStudent(c)
    \/ StudentFind(c)
    \/ CreateMakeCode(c)
    \/ CreateInsert(c, maxWorkspaces)
    \/ InitWorkspaceDefaults(c)
    \/ StudentRefind(c)

(* the response has been sent; the client may submit again *)
Return(c) ==
    /\ req[c].pc = "done"
    /\ req' = [req EXCEPT ![c] = Idle]
    /\ UNCHANGED <<db, tx, now, schema, boot>>

----------------------------------------------------------------------------
(* POST /objectives/<code>: replace the goal tree of one (workspace, category) *)

norm_cat(category) ==
    LET c == Strip(category) IN IF c \in Categories THEN c ELSE Orientation

CategoryInputs == {Orientation, <<" ">> \o DailyLiving, <<"b">>}

(* the digits N of the submitted keys long_term_goal_<N> / short_term_<N>[] *)
KeySuffixes == {<<"1">>, <<"0", "1">>, <<"3">>}

KeyLetter(k) == IF k = <<"1">> THEN "a" ELSE IF k = <<"0", "1">> THEN "b" ELSE "c"

LongTexts(k) == {<<" ">>, <<" ", KeyLetter(k)>>}

ShortLists(k) == {<<>>, << <<"x", KeyLetter(k)>>, <<" ">>, <<"y", KeyLetter(k), " ">> >>}

TeachingGoals == {<<" ">>, <<"g">>}

(* a form: the long-term text and the short-term list submitted under each key *)
FormEntries(k) == {[lt |-> l, st |-> st] : l \in LongTexts(k), st \in ShortLists(k)}

FormsOn(K) == {f \in [K -> UNION {FormEntries(k) : k \in K}] : \A k \in K : f[k] \in FormEntries(k)}

Forms == UNION {FormsOn(K) : K \in SUBSET KeySuffixes}

RECURSIVE SortedSeq(_)
SortedSeq(S) ==
    IF S = {} THEN <<>>
    ELSE LET m == CHOOSE x \in S : \A y \in S : x <= y IN <<m>> \o SortedSeq(S \ {m})

(* lines 426-431: sorted(set(int(m.group(1)) for each key long_term_goal_(\d+))) *)
group_idxs(form) == SortedSeq({ParseInt(k) : k \in DOMAIN form})

(* request.form.get(f"long_term_goal_{idx}") or "", and getlist(f"short_term_{idx}[]") *)
FormGet(form, idx) == IF FormatInt(idx) \in DOMAIN form THEN form[FormatInt(idx)].lt ELSE Blank
FormGetList(form, idx) == IF FormatInt(idx) \in DOMAIN form THEN form[FormatInt(idx)].st ELSE <<>>

NonBlank(s) == Strip(s) # Blank

StripAll(sts) == [j \in 1 .. Len(sts) |-> Strip(sts[j])]

KeepBlankGroups(lt) == TRUE

(* line 440: a group whose long-term text is blank is skipped *)
KeepGroup(lt) == lt # Blank

(* lines 437-444 *)
RECURSIVE PayloadOf(_, _)
PayloadOf(form, idxs) ==
    IF idxs = <<>> THEN <<>>
    ELSE LET lt == Strip(FormGet(form, Head(idxs)))
             sts == StripAll(SelectSeq(FormGetList(form, Head(idxs)), NonBlank)) IN
         (IF KeepGroup(lt) THEN <<[lt |-> lt, sts |-> sts]>> ELSE <<>>) \o PayloadOf(form, Tail(idxs))

groups_payload(form) == PayloadOf(form, group_idxs(form))

(* get_objectives / get_long_term_groups / get_short_terms_by_group_ids / get_records *)
get_objectives(d, ws_id, category) ==
    {o \in d.objectives : o.workspace_id = ws_id /\ o.category = norm_cat(category)}

GroupRows(d, ws_id, cat) == {g \in d.long_term_groups : g.workspace_id = ws_id /\ g.category = cat}

OrdThenId(x, y) == x.ord < y.ord \/ (x.ord = y.ord /\ x.id < y.id)

(* ORDER BY ord ASC, id ASC *)
RECURSIVE OrderByOrd(_)
OrderByOrd(S) ==
    IF S = {} THEN <<>>
    ELSE LET m == CHOOSE x \in S : \A y \in S \ {x} : OrdThenId(x, y) IN <<m>> \o OrderByOrd(S \ {m})

get_long_term_groups(d, ws_id, category) == OrderByOrd(GroupRows(d, ws_id, norm_cat(category)))

get_short_terms(d, group_id) == OrderByOrd({s \in d.short_terms : s.group_id = group_id})

CreatedThenId(x, y) ==
    TextLess(x.created_at, y.created_at) \/ (x.created_at = y.created_at /\ x.id < y.id)

(* ORDER BY created_at ASC, id ASC *)
RECURSIVE OrderByCreated(_)
OrderByCreated(S) ==
    IF S = {} THEN <<>>
    ELSE LET m == CHOOSE x \in S : \A y \in S \ {x} : CreatedThenId(x, y) IN <<m>> \o OrderByCreated(S \ {m})

RecordRows(d, ws_id, cat) == {r \in d.records : r.workspace_id = ws_id /\ r.category = cat}

get_records(d, ws_id, category) == OrderByCreated(RecordRows(d, ws_id, norm_cat(category)))

(* the statements of the transaction, lines 454-491 *)
UpsertObjective(d, ws_id, cat, target_date, teaching_goal) ==
    [d EXCEPT !.objectives = {o \in @ : ~(o.workspace_id = ws_id /\ o.category = cat)} \cup
        {[workspace_id |-> ws_id, category |-> cat, target_date |-> target_date, teaching_goal |-> teaching_goal]}]

DeleteGroupsAnyCategory(d, ws_id, cat) ==
    LET gone == {g \in d.long_term_groups : g.workspace_id = ws_id} IN
    [d EXCEPT !.long_term_groups = @ \ gone,
              !.short_terms = {s \in @ : s.group_id \notin {g.id : g \in gone}}]

DeleteGroups(d, ws_id, cat) ==
    LET gone == GroupRows(d, ws_id, cat) IN
    [d EXCEPT !.long_term_groups = @ \ gone,
              !.short_terms = {s \in @ : s.group_id \notin {g.id : g \in gone}}]

InsertGroup(d, ws_id, cat, g, ord_idx) ==
    LET group_id == d.seq.long_term_groups + 1 IN
    [d EXCEPT !.long_term_groups = @ \cup
                 {[id |-> group_id, workspace_id |-> ws_id, category |-> cat,
                   long_term_goal |-> g.lt, ord |-> ord_idx]},
              !.seq.long_term_groups = group_id,
              !.short_terms = @ \cup
                 {[id |-> d.seq.short_terms + j, group_id |-> group_id, item |-> g.sts[j], ord |-> j] :
                     j \in 1 .. Len(g.sts)},
              !.seq.short_terms = @ + Len(g.sts)]

TouchWorkspace(d, ws_id, ts) ==
    [d EXCEPT !.workspaces = {IF w.id = ws_id THEN [w EXCEPT !.updated_at = ts] ELSE w : w \in @}]

CommittedAutocommit(committed, working) == working

(* what other connections see after a statement of an open transaction:
   sqlite3 opens a transaction before the first INSERT/UPDATE/DELETE and
   `with conn` commits only at the end of the block *)
Committed(committed, working) == committed

Execute(c, working) ==
    /\ tx' = [tx EXCEPT ![c] = [open |-> TRUE, d |-> working]]
    /\ db' = Committed(db, working)

Goto(c, pc) == req' = [req EXCEPT ![c].pc = pc]

RejectedNever(idxs, payload) == FALSE

(* lines 433-435 and 446-448: `if not group_idxs` and `if not groups_payload`
   flash and redirect before the connection is opened *)
Rejected(idxs, payload) == idxs = <<>> \/ payload = <<>>

(* lines 407-448: the request arrives, the workspace is looked up, the form parsed.
   keep: whether the submitted form is remembered in req[c].args *)
ObjectivesBegin(c, keep, forms, goals, maxGroups) ==
    /\ req[c].kind = "idle"
    /\ \E code \in Codes, rawcat \in CategoryInputs, tg \in goals, form \in forms :
          LET ws == get_workspace_by_code(db.workspaces, code)
              payload == groups_payload(form)
              r == [kind |-> "objectives", pc |-> "begin",
                    args |-> IF keep THEN [form |-> form, code |-> code, category |-> rawcat] ELSE None,
                    loc |-> None, out |-> None] IN
          /\ db.seq.long_term_groups + Len(payload) <= maxGroups
          /\ IF ws = None
             THEN req' = [req EXCEPT ![c] = [r EXCEPT !.pc = "done",
                                   !.out = [status |-> "notfound", code |-> code, via |-> "begin"]]]
             ELSE IF Rejected(group_idxs(form), payload)
             THEN req' = [req EXCEPT ![c] = [r EXCEPT !.pc = "done",
                                   !.out = [status |-> "flash", code |-> code, via |-> "begin"]]]
             ELSE req' = [req EXCEPT ![c] = [r EXCEPT !.pc = "upsert",
                                   !.loc = [ws_id |-> ws.id, cat |-> norm_cat(rawcat), code |-> code,
                                            target_date |-> today_ymd(now), teaching_goal |-> Strip(tg),
                                            payload |-> payload, k |-> 1]]]
    /\ UNCHANGED <<db, tx, now, schema, boot>>

InTx(c, pc) == req[c].kind = "objectives" /\ req[c].pc = pc

(* lines 451-463: ts = now_iso(), then the upsert opens the transaction *)
ObjectivesUpsert(c) ==
    /\ InTx(c, "upsert")
    /\ CanWrite(c)
    /\ LET l == req[c].loc IN
       IF ~fk_workspace(db, l.ws_id)
       THEN Respond(c, "error", l.code) /\ UNCHANGED <<db, tx>>
       ELSE /\ Execute(c, UpsertObjective(db, l.ws_id, l.cat, l.target_date, l.teaching_goal))
            /\ req' = [req EXCEPT ![c].pc = "delete", ![c].loc = [l EXCEPT !.k = 1] @@ [ts |-> now_iso(now)]]
    /\ UNCHANGED <<now, schema, boot>>

(* lines 466-469 *)
ObjectivesDeleteGroups(c) ==
    /\ InTx(c, "delete")
    /\ LET l == req[c].loc IN Execute(c, DeleteGroups(tx[c].d, l.ws_id, l.cat))
    /\ Goto(c, "insert")
    /\ UNCHANGED <<now, schema, boot>>

(* lines 472-486: one turn of the loop, a group and its short-term items *)
ObjectivesInsertGroup(c) ==
    /\ InTx(c, "insert")
    /\ LET l == req[c].loc IN
       /\ Execute(c, InsertGroup(tx[c].d, l.ws_id, l.cat, l.payload[l.k], l.k))
       /\ req' = [req EXCEPT ![c].loc.k = l.k + 1,
                             ![c].pc = IF l.k = Len(l.payload) THEN "touch" ELSE "insert"]
    /\ UNCHANGED <<now, schema, boot>>

(* lines 488-491 *)
ObjectivesTouch(c) ==
    /\ InTx(c, "touch")
    /\ LET l == req[c].loc IN Execute(c, TouchWorkspace(tx[c].d, l.ws_id, l.ts))
    /\ Goto(c, "commit")
    /\ UNCHANGED <<now, schema, boot>>

(* leaving the `with` block commits *)
ObjectivesCommit(c) ==
    /\ InTx(c, "commit")
    /\ db' = tx[c].d
    /\ tx' = [tx EXCEPT ![c] = NoTx]
    /\ Respond(c, "saved", req[c].loc.code)
    /\ UNCHANGED <<now, schema, boot>>

(* an exception (or the death of the process) inside the block: rollback *)
ObjectivesFail(c) ==
    /\ req[c].kind = "objectives" /\ tx[c].open
    /\ db' = Committed(db, db)
    /\ tx' = [tx EXCEPT ![c] = NoTx]
    /\ Respond(c, "error", req[c].loc.code)
    /\ UNCHANGED <<now, schema, boot>>

Objectives(c, keep, forms, goals, maxGroups) ==
    \/ ObjectivesBegin(c, keep, forms, goals, maxGroups)
    \/ ObjectivesUpsert(c)
    \/ ObjectivesDeleteGroups(c)
    \/ ObjectivesInsertGroup(c)
    \/ ObjectivesTouch(c)
    \/ ObjectivesCommit(c)
    \/ ObjectivesFail(c)

----------------------------------------------------------------------------
(* POST /records/<code>: add or delete one teaching record *)

Actions == {"add", "delete", "show"}
TeachTimes == {<<" ">>, <<"1", "4">>}

(* "sup2" stands for the character U+00B2, a digit that is not a decimal *)
RecIdInputs == {<<"1">>, <<"0", "2">>, <<" ", "3">>, <<"x">>, <<"sup2">>, <<>>}

(* str.isdigit() *)
isdigit(s) == s # <<>> /\ \A j \in 1 .. Len(s) : s[j] \in DecimalDigits \cup {"sup2"}

(* whether int(s) returns instead of raising ValueError *)
IntAccepts(s) == s # <<>> /\ \A j \in 1 .. Len(s) : s[j] \in DecimalDigits

(* lines 511-533 and 549-551 *)
RecordsBegin(c, keep, ids, maxRecords) ==
    /\ req[c].kind = "idle"
    /\ \E code \in Codes, rawcat \in CategoryInputs, action \in Actions,
          teach_time \in TeachTimes, rawid \in ids \cup {<<>>} :
          LET ws == get_workspace_by_code(db.workspaces, code)
              rec_id == Strip(rawid)
              r == [kind |-> "records", pc |-> "begin",
                    args |-> IF keep THEN [action |-> action, rec_id |-> rec_id, code |-> code,
                                           category |-> rawcat]
                             ELSE None,
                    loc |-> None, out |-> None]
              l == [ws_id |-> ws.id, cat |-> norm_cat(rawcat), code |-> code]
              done(status) == [r EXCEPT !.pc = "done",
                                        !.out = [status |-> status, code |-> code, via |-> "begin"]] IN
          /\ action = "add" => db.seq.records < maxRecords
          /\ action # "add" => teach_time = <<" ">>
          /\ action # "delete" => rawid = <<>>
          /\ req' = [req EXCEPT ![c] =
                IF ws = None THEN done("notfound")
                ELSE IF action = "add"
                THEN IF Strip(teach_time) = Blank THEN done("flash")
                     ELSE [r EXCEPT !.pc = "add", !.loc = l @@ [teach_time |-> Strip(teach_time)]]
                ELSE IF action = "delete"
                THEN IF ~isdigit(rec_id) THEN done("redirect")
                     ELSE IF ~IntAccepts(rec_id) THEN done("error")
                     ELSE [r EXCEPT !.pc = "delete", !.loc = l @@ [id |-> ParseInt(rec_id)]]
                ELSE done("render")]
    /\ UNCHANGED <<db, tx, now, schema, boot>>

InsertRecord(d, ws_id, cat, teach_time, ts) ==
    [d EXCEPT !.records = @ \cup {[id |-> d.seq.records + 1, workspace_id |-> ws_id, category |-> cat,
                                   teach_time |-> teach_time, created_at |-> ts]},
              !.seq.records = @ + 1]

(* lines 535-547: one transaction, INSERT then UPDATE workspaces *)
RecordsAdd(c) ==
    /\ req[c].kind = "records" /\ req[c].pc = "add"
    /\ CanWrite(c)
    /\ LET l == req[c].loc IN
       IF ~fk_workspace(db, l.ws_id)
       THEN Respond(c, "error", l.code) /\ UNCHANGED db
       ELSE /\ db' = TouchWorkspace(InsertRecord(db, l.ws_id, l.cat, l.teach_time, now_iso(now)),
                                    l.ws_id, now_iso(now))
            /\ Respond(c, "added", l.code)
    /\ UNCHANGED <<tx, now, schema, boot>>

(* line 554: DELETE FROM records WHERE id=? AND workspace_id=? AND category=? *)
DeleteRecord(d, id, ws_id, cat) ==
    [d EXCEPT !.records = {r \in @ : ~(r.id = id /\ r.workspace_id = ws_id /\ r.category = cat)}]

(* lines 552-559 *)
RecordsDelete(c) ==
    /\ req[c].kind = "records" /\ req[c].pc = "delete"
    /\ CanWrite(c)
    /\ LET l == req[c].loc IN
       /\ db' = DeleteRecord(db, l.id, l.ws_id, l.cat)
       /\ Respond(c, "deleted", l.code)
    /\ UNCHANGED <<tx, now, schema, boot>>

Records(c, keep, ids, maxRecords) ==
    \/ RecordsBegin(c, keep, ids, maxRecords)
    \/ RecordsAdd(c)
    \/ RecordsDelete(c)

----------------------------------------------------------------------------
(* POST /api/delete-workspace, lines 679-691 *)

NoneOpen == \A c \in Procs : ~tx[c].open

api_delete_workspace ==
    /\ NoneOpen
    /\ \E code \in Codes :
          LET ws == get_workspace_by_code(db.workspaces, code) IN
          /\ ws # None
          /\ db' = DeleteWorkspaces(db, {ws.id})
    /\ UNCHANGED <<tx, req, now, schema, boot>>

(* cleanup_expired_workspaces, lines 331-341, run when a process starts *)
COALESCE(a, b) == IF a # NULL THEN a ELSE b

ExpiredByCreation(W, t) ==
    {w \in W : TextLess(w.created_at, strftime(t - RETENTION_DAYS))}

Expired(W, t) ==
    {w \in W : TextLess(COALESCE(w.updated_at, w.created_at), strftime(t - RETENTION_DAYS))}

cleanup_expired_workspaces ==
    /\ NoneOpen
    /\ LET gone == Expired(db.workspaces, now) IN
       /\ db' = DeleteWorkspaces(db, {w.id : w \in gone})
       /\ boot' = [boot EXCEPT !.pc = "serving", !.n = Cardinality(gone)]
    /\ UNCHANGED <<tx, req, now, schema>>

(* time passes *)
Tick(days) ==
    /\ now + days <= MaxNow
    /\ now' = now + days
    /\ UNCHANGED <<db, tx, req, schema, boot>>

----------------------------------------------------------------------------
(* The schema: which tables, added columns and indexes exist, and the shape
   of the objectives table as migrate_objectives_table reads it from
   PRAGMA table_info (lines 47-66):
     "composite"   primary key (workspace_id, category)
     "legacy"      primary key workspace_id, target_date and teaching_goal
                   present, no category column
     "legacy_cat"  the same with a category column
     "foreign"     any other table named objectives
   A column that does not exist yet reads NULL once it is added, and is
   written NULL in the rows before that. *)

Tables == {"workspaces", "objectives", "long_term_groups", "short_terms", "records"}
Tmp == "objectives_new_tmp"
WorkspaceColumns == {"workspaces.student_name", "workspaces.agency", "workspaces.updated_at"}
CategoryColumns == {"long_term_groups.category", "records.category"}
Indexes == {"ix_objectives_ws_cat", "ix_groups_ws_cat", "ix_records_ws_cat"}
CurrentSchema ==
    [tables |-> Tables, objectives |-> "composite",
     columns |-> WorkspaceColumns \cup CategoryColumns,
     indexes |-> Indexes \cup {"ux_student_agency"}]

NoSchema == [tables |-> {}, objectives |-> "composite", columns |-> {}, indexes |-> {}]

Serving == [pc |-> "serving", n |-> 0, run |-> 0, first |-> "none", before |-> None, origin |-> None]

(* init_db, lines 103-204, statement by statement. The connection of the
   starting process is Starter; what it has written and not yet committed is
   tx[Starter] (rows d, schema s). *)

Working == IF tx[Starter].open THEN tx[Starter] ELSE [open |-> FALSE, d |-> db, s |-> schema]

(* a statement run by conn.execute inside the transaction the connection has
   open, or autocommitted when there is none *)
Write(d, s) ==
    IF tx[Starter].open
    THEN /\ tx' = [tx EXCEPT ![Starter] = [open |-> TRUE, d |-> d, s |-> s]]
         /\ UNCHANGED <<db, schema>>
    ELSE /\ db' = d
         /\ schema' = s
         /\ UNCHANGED tx

At(pc) == boot.pc = pc /\ CanWrite(Starter)
Step(pc) == boot' = [boot EXCEPT !.pc = pc]

(* lines 109-155: executescript of five CREATE TABLE IF NOT EXISTS; the
   tables it creates have the current shape, category columns included *)
CreateTables ==
    /\ At("create_tables")
    /\ db' = db
    /\ schema' = [schema EXCEPT
          !.tables = @ \cup Tables,
          !.objectives = IF "objectives" \in schema.tables THEN @ ELSE "composite",
          !.columns = @ \cup {c \in CategoryColumns :
                                 /\ c = "long_term_groups.category" => "long_term_groups" \notin schema.tables
                                 /\ c = "records.category" => "records" \notin schema.tables}]
    /\ Step("alter_workspaces")
    /\ UNCHANGED <<tx, req, now>>

PropagatesUncaught(failed) == failed

(* try: conn.execute(sql) / except sqlite3.OperationalError: pass *)
Propagates(failed) == FALSE

(* lines 158-166: ALTER TABLE workspaces ADD COLUMN, three times *)
AddWorkspaceColumns ==
    /\ At("alter_workspaces")
    /\ IF \E c \in WorkspaceColumns : Propagates(c \in schema.columns)
       THEN Step("raise") /\ UNCHANGED <<db, schema>>
       ELSE /\ schema' = [schema EXCEPT !.columns = @ \cup WorkspaceColumns]
            /\ db' = db
            /\ Step("alter_category")
    /\ UNCHANGED <<tx, req, now>>

(* lines 169-176: ALTER TABLE ... ADD COLUMN category, twice *)
AddCategoryColumns ==
    /\ At("alter_category")
    /\ IF \E c \in CategoryColumns : Propagates(c \in schema.columns)
       THEN Step("raise") /\ UNCHANGED <<db, schema>>
       ELSE /\ schema' = [schema EXCEPT !.columns = @ \cup CategoryColumns]
            /\ db' = db
            /\ Step("backfill")
    /\ UNCHANGED <<tx, req, now>>

(* SET category='定向' WHERE category IS NULL OR category='' *)
Backfilled(R) ==
    {[r EXCEPT !.category = IF @ = NULL \/ @ = Blank THEN Orientation ELSE @] : r \in R}

(* lines 179-180: the two UPDATEs; the first opens a transaction *)
BackfillCategory ==
    /\ At("backfill")
    /\ tx' = [tx EXCEPT ![Starter] =
                 [open |-> TRUE,
                  d |-> [db EXCEPT !.long_term_groups = Backfilled(@), !.records = Backfilled(@)],
                  s |-> schema]]
    /\ Step("unique_index")
    /\ UNCHANGED <<db, schema, req, now>>

(* rows that a unique index on (student_name, agency) cannot hold: equal
   pairs, NULLs counting as distinct *)
DuplicatePairs(W) ==
    \E w1 \in W, w2 \in W :
       /\ w1.id # w2.id
       /\ w1.student_name # NULL /\ w1.agency # NULL
       /\ w1.student_name = w2.student_name /\ w1.agency = w2.agency

(* lines 183-186: CREATE UNIQUE INDEX ux_student_agency. An existing index
   is an OperationalError (swallowed); duplicate rows are an IntegrityError,
   which the except clause does not catch *)
CreateUniqueIndex ==
    /\ At("unique_index")
    /\ LET w == Working IN
       IF "ux_student_agency" \in w.s.indexes
       THEN /\ Step(IF Propagates(TRUE) THEN "raise" ELSE "migrate")
            /\ UNCHANGED <<db, schema, tx>>
       ELSE IF DuplicatePairs(w.d.workspaces)
       THEN Step("raise") /\ UNCHANGED <<db, schema, tx>>
       ELSE /\ Write(w.d, [w.s EXCEPT !.indexes = @ \cup {"ux_student_agency"}])
            /\ Step("migrate")
    /\ UNCHANGED <<req, now>>

(* migrate_objectives_table, lines 34-66: the early returns. PRAGMA
   foreign_keys = OFF at line 190 is issued inside the transaction the
   UPDATEs opened, where it has no effect. *)
MigrateCheck ==
    /\ At("migrate")
    /\ LET s == Working.s IN
       IF \/ "workspaces" \notin s.tables
          \/ "objectives" \notin s.tables
          \/ s.objectives = "composite"
          \/ s.objectives \notin {"legacy", "legacy_cat"}
       THEN Step("indexes")
       ELSE Step("mig_tmp")
    /\ UNCHANGED <<db, schema, tx, req, now>>

(* lines 69-80: executescript commits the open transaction, then DROP TABLE
   IF EXISTS objectives_new_tmp and CREATE TABLE objectives_new_tmp *)
MigrateCreateTmp ==
    /\ At("mig_tmp")
    /\ LET w == Working IN
       /\ db' = [w.d EXCEPT !.objectives_new_tmp = {}]
       /\ schema' = [w.s EXCEPT !.tables = @ \cup {Tmp}]
    /\ tx' = [tx EXCEPT ![Starter] = NoTx]
    /\ Step("mig_copy")
    /\ UNCHANGED <<req, now>>

CopiedCategoryDefault(o, has_category) == Orientation

(* SELECT o.workspace_id, o.category | '定向', ... *)
CopiedCategory(o, has_category) == IF has_category THEN o.category ELSE Orientation

(* SELECT ... FROM objectives o JOIN workspaces w ON w.id = o.workspace_id *)
Selected(d, has_category) ==
    {[workspace_id |-> o.workspace_id, category |-> CopiedCategory(o, has_category),
      target_date |-> o.target_date, teaching_goal |-> o.teaching_goal] :
        o \in {x \in d.objectives : fk_workspace(d, x.workspace_id)}}

(* the NOT NULL columns of objectives_new_tmp *)
NotNullViolation(R) ==
    \E r \in R : r.category = NULL \/ r.target_date = NULL \/ r.teaching_goal = NULL

(* INSERT OR REPLACE on PRIMARY KEY (workspace_id, category): a later row
   replaces an earlier one of the same key *)
Replaced(R) ==
    {r \in R : \A q \in R : (q.workspace_id = r.workspace_id /\ q.category = r.category) => q = r}

(* lines 82-95: INSERT OR REPLACE INTO objectives_new_tmp SELECT ...; the
   statement opens a transaction, and aborts with IntegrityError on a NULL *)
MigrateCopy ==
    /\ At("mig_copy")
    /\ LET rows == Selected(db, schema.objectives = "legacy_cat") IN
       IF NotNullViolation(rows)
       THEN Step("raise") /\ UNCHANGED tx
       ELSE /\ tx' = [tx EXCEPT ![Starter] =
                         [open |-> TRUE, d |-> [db EXCEPT !.objectives_new_tmp = Replaced(rows)], s |-> schema]]
            /\ Step("mig_drop")
    /\ UNCHANGED <<db, schema, req, now>>

(* lines 98-99: executescript commits the copy, then DROP TABLE objectives
   (its index goes with it) *)
MigrateDrop ==
    /\ At("mig_drop")
    /\ LET w == Working IN
       /\ db' = [w.d EXCEPT !.objectives = {}]
       /\ schema' = [w.s EXCEPT !.tables = @ \ {"objectives"},
                                !.indexes = @ \ {"ix_objectives_ws_cat"}]
    /\ tx' = [tx EXCEPT ![Starter] = NoTx]
    /\ Step("mig_rename")
    /\ UNCHANGED <<req, now>>

(* line 100: ALTER TABLE objectives_new_tmp RENAME TO objectives *)
MigrateRename ==
    /\ At("mig_rename")
    /\ db' = [db EXCEPT !.objectives = db.objectives_new_tmp, !.objectives_new_tmp = {}]
    /\ schema' = [schema EXCEPT !.tables = (@ \ {Tmp}) \cup {"objectives"},
                                !.objectives = "composite"]
    /\ Step("indexes")
    /\ UNCHANGED <<tx, req, now>>

(* the index on objectives(workspace_id, category) needs the category column *)
Indexable(s) ==
    {i \in Indexes : i = "ix_objectives_ws_cat" =>
                        ("objectives" \in s.tables /\ s.objectives \in {"composite", "legacy_cat"})}

(* lines 196-204: CREATE INDEX IF NOT EXISTS, three times, errors swallowed *)
CreateIndexes ==
    /\ At("indexes")
    /\ LET w == Working IN
       IF \E i \in Indexes \ Indexable(w.s) : Propagates(TRUE)
       THEN Step("raise") /\ UNCHANGED <<db, schema, tx>>
       ELSE /\ Write(w.d, [w.s EXCEPT !.indexes = @ \cup Indexable(w.s)])
            /\ Step("commit")
    /\ UNCHANGED <<req, now>>

Outcome(result) == [boot EXCEPT !.pc = result, !.first = IF boot.run = 1 THEN result ELSE @]

(* line 104: `with get_conn() as conn` commits when the block ends *)
InitDbCommit ==
    /\ At("commit")
    /\ db' = Working.d
    /\ schema' = Working.s
    /\ tx' = [tx EXCEPT ![Starter] = NoTx]
    /\ boot' = Outcome("done")
    /\ UNCHANGED <<req, now>>

(* line 104: an exception leaves the block; `with` rolls back and the
   exception ends the import of the module *)
InitDbRaise ==
    /\ At("raise")
    /\ tx' = [tx EXCEPT ![Starter] = NoTx]
    /\ boot' = Outcome("failed")
    /\ UNCHANGED <<db, schema, req, now>>

init_db ==
    \/ CreateTables
    \/ AddWorkspaceColumns
    \/ AddCategoryColumns
    \/ BackfillCategory
    \/ CreateUniqueIndex
    \/ MigrateCheck
    \/ MigrateCreateTmp
    \/ MigrateCopy
    \/ MigrateDrop
    \/ MigrateRename
    \/ CreateIndexes
    \/ InitDbCommit
    \/ InitDbRaise

(* line 343: the module is imported again (the process is started again) *)
(* the process is killed (or the machine stops) while init_db runs: what
   the connection has not committed is rolled back when the file is next
   opened, what it has committed stays *)
Crash ==
    /\ boot.pc \notin {"serving", "cleanup", "done", "failed", "crashed"}
    /\ tx' = [tx EXCEPT ![Starter] = NoTx]
    /\ boot' = Outcome("crashed")
    /\ UNCHANGED <<db, schema, req, now>>

InitDbAgain(maxRuns) ==
    /\ boot.pc \in {"done", "failed", "crashed"}
    /\ boot.run < maxRuns
    /\ boot' = [boot EXCEPT !.pc = "create_tables", !.run = @ + 1,
                            !.before = [db |-> db, schema |-> schema]]
    /\ UNCHANGED <<db, schema, tx, req, now>>

----------------------------------------------------------------------------
(* Two concurrent submissions of POST /student on a database that may
   already hold a workspace *)

SeedWorkspace(sn, code) ==
    [id |-> 1, code |-> code, student_name |-> sn, agency |-> <<"X">>,
     created_at |-> now_iso(StartDay), updated_at |-> now_iso(StartDay)]

InitCreate ==
    /\ \E seed \in {{}} \cup {{SeedWorkspace(sn, code)} : sn \in {<<"A">>, <<"C">>}, code \in Codes} :
          db = [EmptyDb EXCEPT !.workspaces = seed, !.seq.workspaces = Cardinality(seed)]
    /\ tx = [c \in Procs |-> NoTx]
    /\ req = [c \in Clients |-> Idle]
    /\ now = StartDay
    /\ schema = CurrentSchema
    /\ boot = Serving

NextCreate == \E c \in Clients : Student(c, CreateWorkspaces)

SpecCreate == InitCreate /\ [][NextCreate]_vars

----------------------------------------------------------------------------
(* The application serving requests on a fresh database: one client whose
   handlers run statement by statement, with administrative deletes, process
   starts (the retention sweep) and the passage of time in between *)

(* the forms submitted here: one group, with short-term items *)
MainForms == {f \in FormsOn({<<"1">>}) : f[<<"1">>].st # <<>>}

Init ==
    /\ db = EmptyDb
    /\ tx = [c \in Procs |-> NoTx]
    /\ req = [c \in Clients |-> Idle]
    /\ now = StartDay
    /\ schema = CurrentSchema
    /\ boot = Serving

Next ==
    \/ Student(1, MainWorkspaces)
    \/ Objectives(1, FALSE, MainForms, {<<"g">>}, MainGroups)
    \/ Records(1, FALSE, {<<"1">>}, MainRecords)
    \/ Return(1)
    \/ api_delete_workspace
    \/ cleanup_expired_workspaces
    \/ Tick(RETENTION_DAYS + 1)

Spec == Init /\ [][Next]_vars

----------------------------------------------------------------------------
(* The database after n students have been registered through POST /student:
   workspace i with its default objectives and groups *)

SeedNames == <<<<"A">>, <<"B">>>>

SeedRow(i) ==
    [id |-> i, code |-> make_code(i - 1), student_name |-> SeedNames[i], agency |-> <<"X">>,
     created_at |-> now_iso(StartDay), updated_at |-> now_iso(StartDay)]

RECURSIVE Seeded(_)
Seeded(n) ==
    IF n = 0 THEN EmptyDb
    ELSE LET d == Seeded(n - 1) IN
         [d EXCEPT !.workspaces = @ \cup {SeedRow(n)},
                   !.seq.workspaces = n,
                   !.objectives = DefaultObjectives(d, n, StartDay),
                   !.long_term_groups = DefaultGroups(d, n),
                   !.seq.long_term_groups = @ + 2]

InitSeeded(n) ==
    /\ db = Seeded(n)
    /\ tx = [c \in Procs |-> NoTx]
    /\ req = [c \in Clients |-> Idle]
    /\ now = StartDay
    /\ schema = CurrentSchema
    /\ boot = Serving

(* One submission of POST /objectives for a registered student, the
   submitted form remembered *)
InitForm == InitSeeded(1)

NextForm == Objectives(1, TRUE, Forms, TeachingGoals, EditGroups)

SpecForm == InitForm /\ [][NextForm]_vars

(* A registered student's workspace edited over and over: objectives saved,
   records added and deleted *)
InitEdit == InitSeeded(1)

EditForms == {f \in FormsOn({<<"1">>}) \cup FormsOn({<<"1">>, <<"3">>}) : \A k \in DOMAIN f : f[k].st # <<>>}

NextEdit ==
    \/ Objectives(1, FALSE, EditForms, TeachingGoals, EditGroups)
    \/ Records(1, FALSE, {<<"1">>}, EditRecords)
    \/ Return(1)

SpecEdit == InitEdit /\ [][NextEdit]_vars

(* The records of two registered students *)
InitLedger == InitSeeded(2)

NextLedger ==
    \/ Records(1, TRUE, RecIdInputs, LedgerRecords)
    \/ Return(1)

SpecLedger == InitLedger /\ [][NextLedger]_vars

(* The retention sweep of a starting process, on workspaces of various ages:
   rows written by this version carry updated_at, rows that predate the
   student_name/agency/updated_at columns have NULL in them *)
SweepStamps == {StartDay - 1, StartDay, StartDay + 1}

SweepRows(i) ==
    {[SeedRow(i) EXCEPT !.created_at = strftime(p[1]), !.updated_at = strftime(p[2])] :
        p \in {q \in SweepStamps \X SweepStamps : q[2] >= q[1]}}
    \cup
    {[SeedRow(i) EXCEPT !.created_at = strftime(tc), !.updated_at = NULL,
                        !.student_name = NULL, !.agency = NULL] : tc \in SweepStamps}

InitSweep ==
    /\ \E r1 \in SweepRows(1), r2 \in SweepRows(2), n \in {1, 2} :
          db = [Seeded(n) EXCEPT !.workspaces = IF n = 1 THEN {r1} ELSE {r1, r2}]
    /\ tx = [c \in Procs |-> NoTx]
    /\ req = [c \in Clients |-> Idle]
    /\ now = StartDay + RETENTION_DAYS
    /\ schema = CurrentSchema
    /\ boot = [Serving EXCEPT !.pc = "cleanup"]

(* a process starts: module import reaches line 693 *)
ProcessStart ==
    /\ boot.pc = "serving"
    /\ boot' = [boot EXCEPT !.pc = "cleanup"]
    /\ UNCHANGED <<db, tx, req, now, schema>>

StartupCleanup == boot.pc = "cleanup" /\ cleanup_expired_workspaces

NextSweep ==
    \/ StartupCleanup
    \/ ProcessStart
    \/ Tick(1)

SpecSweep == InitSweep /\ [][NextSweep]_vars

(* init_db at the start of a process, twice in a row, on a database that is
   new, was left by an earlier version of the program, or is current *)

LegacyWorkspace(i) ==
    [id |-> i, code |-> make_code(i - 1), student_name |-> NULL, agency |-> NULL,
     created_at |-> now_iso(StartDay), updated_at |-> NULL]

(* the objectives rows of a table keyed by workspace_id alone: at most one
   row per id, the id of a workspace or of none *)
LegacyObjective(i, cat, td) ==
    [workspace_id |-> i, category |-> cat, target_date |-> td, teaching_goal |-> <<"X">>]

LegacyObjectives(cats) ==
    LET choices == [1 .. MigWorkspaces -> {None} \cup (cats \X {<<"d">>, NULL})] IN
    {{LegacyObjective(i, f[i][1], f[i][2]) : i \in {j \in 1 .. MigWorkspaces : f[j] # None}} :
        f \in choices}

LegacyGroup(cat) ==
    [id |-> 1, workspace_id |-> 1, category |-> cat, long_term_goal |-> <<"a">>, ord |-> 1]

LegacyRecord(cat) ==
    [id |-> 1, workspace_id |-> 1, category |-> cat, teach_time |-> <<"T">>, created_at |-> now_iso(StartDay)]

(* a database of a version without categories and without the workspace columns *)
LegacySchema(shape) ==
    [tables |-> Tables, objectives |-> shape, columns |-> {}, indexes |-> {}]

LegacyDb(W, O, withRows) ==
    [EmptyDb EXCEPT !.workspaces = W, !.seq.workspaces = MigWorkspaces,
                    !.objectives = O,
                    !.long_term_groups = IF withRows THEN {LegacyGroup(NULL)} ELSE {},
                    !.seq.long_term_groups = IF withRows THEN 1 ELSE 0,
                    !.records = IF withRows THEN {LegacyRecord(NULL)} ELSE {},
                    !.seq.records = IF withRows THEN 1 ELSE 0]

(* a database of a version with the columns but without the unique index *)
InterimSchema ==
    [tables |-> Tables, objectives |-> "legacy_cat",
     columns |-> WorkspaceColumns \cup CategoryColumns, indexes |-> {}]

InterimWorkspaces ==
    {{SeedRow(1)}, {SeedRow(1), SeedRow(2)}, {SeedRow(1), [SeedRow(2) EXCEPT !.student_name = SeedNames[1]]}}

InitMig ==
    /\ \/ db = EmptyDb /\ schema = NoSchema
       \/ db = Seeded(1) /\ schema = CurrentSchema
       \/ \E shape \in {"legacy", "legacy_cat", "foreign"},
             W \in SUBSET {LegacyWorkspace(i) : i \in 1 .. MigWorkspaces},
             withRows \in BOOLEAN :
             \E O \in LegacyObjectives(IF shape = "legacy_cat" THEN {Orientation, DailyLiving, NULL} ELSE {NULL}) :
                /\ withRows => LegacyWorkspace(1) \in W
                /\ db = LegacyDb(W, O, withRows)
                /\ schema = LegacySchema(shape)
       \/ \E W \in InterimWorkspaces, cat \in {Blank, DailyLiving} :
             /\ db = [LegacyDb(W, {LegacyObjective(1, DailyLiving, <<"d">>)}, TRUE)
                         EXCEPT !.long_term_groups = {LegacyGroup(cat)}, !.records = {LegacyRecord(cat)}]
             /\ schema = InterimSchema
    /\ tx = [c \in Procs |-> NoTx]
    /\ req = [c \in Clients |-> Idle]
    /\ now = StartDay
    /\ boot = [Serving EXCEPT !.pc = "create_tables", !.run = 1,
                              !.before = [db |-> db, schema |-> schema],
                              !.origin = [db |-> db, schema |-> schema]]

NextMig ==
    \/ init_db
    \/ InitDbAgain(MigRuns)

SpecMig == InitMig /\ [][NextMig]_vars

(* the same, with starts of the process that are interrupted *)
NextMigCrash ==
    \/ init_db
    \/ Crash
    \/ InitDbAgain(MigCrashRuns)

SpecMigCrash == InitMig /\ [][NextMigCrash]_vars

(* A registered student's form submitted again and again, acceptable
   submissions and ones without a key or with blank long-term texts only *)
InitResubmit == InitSeeded(1)

ResubmitForms ==
    FormsOn({}) \cup FormsOn({<<"1">>})
      \cup {f \in FormsOn({<<"1">>, <<"3">>}) : \A k \in DOMAIN f : ~NonBlank(f[k].lt)}

NextResubmit ==
    \/ Objectives(1, TRUE, ResubmitForms, {<<"g">>}, ResubmitGroups)
    \/ Return(1)

SpecResubmit == InitResubmit /\ [][NextResubmit]_vars

(* A registered student's workspace edited while time passes: objectives
   saved, records added and deleted, days apart *)
InitActivity == InitSeeded(1)

(* a request takes far less than the day the clock counts in: here days
   pass between requests only *)
BetweenRequests == \A c \in Clients : req[c].pc \in {"idle", "done"}

DaysPass == BetweenRequests /\ Tick(RETENTION_DAYS + 1)

NextActivity ==
    \/ Objectives(1, FALSE, MainForms, {<<"g">>}, ActivityGroups)
    \/ Records(1, FALSE, {<<"1">>}, ActivityRecords)
    \/ Return(1)
    \/ DaysPass

SpecActivity == InitActivity /\ [][NextActivity]_vars

----------------------------------------------------------------------------
(* Properties *)

Finished(c, kind) == req[c].kind = kind /\ req[c].pc = "done"

SamePair(c1, c2) ==
    /\ req[c1].args = req[c2].args
    /\ req[c1].args.student_name # Blank
    /\ req[c1].args.agency # Blank

(* C1: when two submissions of POST /student for the same valid
   (student, agency) pair have both finished, in whatever interleaving, the
   table holds exactly one workspace row for the pair, both callers were
   redirected to the same workspace code and neither ended in an error. *)
C1_ConcurrentCreateOneRow ==
    \A c1, c2 \in Clients :
        (c1 # c2 /\ Finished(c1, "student") /\ Finished(c2, "student") /\ SamePair(c1, c2)) =>
            /\ Cardinality(Matches(db.workspaces, req[c1].args.student_name, req[c1].args.agency)) = 1
            /\ req[c1].out.status = "redirect"
            /\ req[c2].out.status = "redirect"
            /\ req[c1].out.code = req[c2].out.code

(* both callers missed the lookup; one inserted the row, the other hit the
   unique index and re-read the winner's row *)
C1_Witness ==
    \E c1, c2 \in Clients :
        /\ c1 # c2 /\ Finished(c1, "student") /\ Finished(c2, "student") /\ SamePair(c1, c2)
        /\ req[c1].out.via = "defaults"
        /\ req[c2].out.via = "refind"

(* C9: in every committed state no objectives, long_term_groups or records
   row names a workspace that is not in the workspaces table and no
   short_terms row names a group that is not in long_term_groups: deleting a
   workspace, by code or by the sweep, takes all its dependent rows with it. *)
C9_NoOrphanRows ==
    /\ \A o \in db.objectives : fk_workspace(db, o.workspace_id)
    /\ \A g \in db.long_term_groups : fk_workspace(db, g.workspace_id)
    /\ \A r \in db.records : fk_workspace(db, r.workspace_id)
    /\ \A t \in db.short_terms : \E g \in db.long_term_groups : g.id = t.group_id

(* the sweep removed a workspace that had groups, short-term items and a record *)
C9_Witness ==
    /\ boot.n > 0
    /\ db.workspaces = {}
    /\ db.seq.short_terms > 0 /\ db.seq.records > 0
    /\ db.long_term_groups = {} /\ db.short_terms = {} /\ db.records = {} /\ db.objectives = {}

(* the goal tree a reader gets for (workspace, category) *)
ItemsOf(d, group_id) ==
    LET ts == get_short_terms(d, group_id) IN [j \in 1 .. Len(ts) |-> ts[j].item]

Tree(d, ws_id, cat) ==
    LET gs == get_long_term_groups(d, ws_id, cat) IN
    [i \in 1 .. Len(gs) |-> [lt |-> gs[i].long_term_goal, sts |-> ItemsOf(d, gs[i].id)]]

Numbered(rows) == \A i \in 1 .. Len(rows) : rows[i].ord = i

(* the committed state holds the whole of the save described by l *)
SavedWhole(d, l) ==
    /\ get_objectives(d, l.ws_id, l.cat) =
          {[workspace_id |-> l.ws_id, category |-> l.cat,
            target_date |-> l.target_date, teaching_goal |-> l.teaching_goal]}
    /\ Tree(d, l.ws_id, l.cat) = l.payload
    /\ Numbered(get_long_term_groups(d, l.ws_id, l.cat))
    /\ \A g \in GroupRows(d, l.ws_id, l.cat) : Numbered(get_short_terms(d, g.id))
    /\ \A w \in d.workspaces : w.id = l.ws_id => w.updated_at = l.ts

(* C2: while a save of (workspace, category) is in progress, every step
   leaves the committed database as it was, except the commit, after which
   the objective row, the rebuilt groups with their short-term items and the
   workspace's updated_at are all those of the save; a failure at any
   statement leaves the committed database unchanged. *)
C2_SaveAllOrNothing ==
    [][\A c \in Clients :
          (req[c].kind = "objectives" /\ req[c].pc # "done") =>
              \/ db' = db
              \/ req[c].pc = "commit" /\ SavedWhole(db', req[c].loc)]_vars

(* a save failed after its upsert, delete and inserts; nothing of it is committed *)
C2_Witness ==
    /\ Finished(1, "objectives")
    /\ req[1].out.status = "error" /\ req[1].out.via = "touch"
    /\ db = Seeded(1)

(* what a finished POST /objectives was about *)
ArgWs(c) == get_workspace_by_code(db.workspaces, req[c].args.code)
ArgCat(c) == norm_cat(req[c].args.category)
Saved(c) == Finished(c, "objectives") /\ req[c].out.status = "saved"

KeyOfText(f, t) == CHOOSE k \in DOMAIN f : Strip(f[k].lt) = t

(* C3, as claimed: after a save whose submitted long-term texts are all
   non-blank, the stored groups are exactly the submitted texts, one group
   per submitted key, in ascending order of index with ord = 1..N, each with
   its submitted non-blank short-term items in order. *)
C3_StoredInIndexOrder ==
    \A c \in Clients :
        (Saved(c) /\ \A k \in DOMAIN req[c].args.form : NonBlank(req[c].args.form[k].lt)) =>
            LET f == req[c].args.form
                gs == get_long_term_groups(db, ArgWs(c).id, ArgCat(c)) IN
            /\ Numbered(gs)
            /\ Len(gs) = Cardinality(DOMAIN f)
            /\ {gs[i].long_term_goal : i \in 1 .. Len(gs)} = {Strip(f[k].lt) : k \in DOMAIN f}
            /\ \A i, j \in 1 .. Len(gs) :
                  i < j => ParseInt(KeyOfText(f, gs[i].long_term_goal)) <= ParseInt(KeyOfText(f, gs[j].long_term_goal))
            /\ \A i \in 1 .. Len(gs) :
                  /\ Numbered(get_short_terms(db, gs[i].id))
                  /\ ItemsOf(db, gs[i].id) =
                        StripAll(SelectSeq(f[KeyOfText(f, gs[i].long_term_goal)].st, NonBlank))

StrippedItems(sts) == {Strip(sts[j]) : j \in 1 .. Len(sts)} \ {Blank}

(* C4: after a save, no stored group of the (workspace, category) has a
   blank long-term text, no short-term item submitted under a key whose
   long-term text is blank is stored, and the stored groups carry
   ord = 1..N without gaps. *)
C4_BlankGroupsDropped ==
    \A c \in Clients :
        Saved(c) =>
            LET f == req[c].args.form
                gs == get_long_term_groups(db, ArgWs(c).id, ArgCat(c)) IN
            /\ Numbered(gs)
            /\ \A i \in 1 .. Len(gs) : NonBlank(gs[i].long_term_goal)
            /\ \A k \in DOMAIN f :
                  ~NonBlank(f[k].lt) =>
                      \A i \in 1 .. Len(gs) : \A j \in 1 .. Len(ItemsOf(db, gs[i].id)) :
                          ItemsOf(db, gs[i].id)[j] \notin StrippedItems(f[k].st)

(* a blank group with short-term items was submitted next to a non-blank one *)
C4_Witness ==
    /\ Saved(1)
    /\ LET f == req[1].args.form IN
       /\ <<"1">> \in DOMAIN f /\ ~NonBlank(f[<<"1">>].lt) /\ f[<<"1">>].st # <<>>
       /\ <<"3">> \in DOMAIN f /\ NonBlank(f[<<"3">>].lt) /\ f[<<"3">>].st # <<>>
    /\ Len(get_long_term_groups(db, ArgWs(1).id, ArgCat(1))) = 1

OtherCategory(cat) == CHOOSE k \in Categories : k # cat

(* everything the readers return for one (workspace, category) *)
CategoryView(d, ws_id, cat) ==
    <<get_objectives(d, ws_id, cat), GroupRows(d, ws_id, cat),
      {t \in d.short_terms : t.group_id \in {g.id : g \in GroupRows(d, ws_id, cat)}},
      RecordRows(d, ws_id, cat)>>

(* C5: a step of a save, of an added record or of a deleted record under
   one category leaves the objective, the groups, the short-term items and
   the records of the other category of that workspace exactly as they
   were, so nothing it writes shows in the other category's reads. *)
C5_CategoryIsolation ==
    [][\A c \in Clients :
          (req[c].kind \in {"objectives", "records"} /\ req[c].pc \notin {"idle", "done"}) =>
              LET l == req[c].loc IN
              CategoryView(db', l.ws_id, OtherCategory(l.cat)) = CategoryView(db, l.ws_id, OtherCategory(l.cat))]_vars

HasShortTerms(d, ws_id, cat) ==
    \E t \in d.short_terms : t.group_id \in {g.id : g \in GroupRows(d, ws_id, cat)}

(* a save has just committed while the other category held its own saved
   groups with short-term items, and the workspace has a record *)
C5_Witness ==
    /\ Saved(1)
    /\ HasShortTerms(db, 1, Orientation) /\ HasShortTerms(db, 1, DailyLiving)
    /\ db.records # {}

(* the record id a delete request names belongs to no record of the
   request's (workspace, category) *)
Miss(d, a) ==
    LET ws == get_workspace_by_code(d.workspaces, a.code) IN
    /\ ws # None
    /\ ~\E r \in d.records :
          /\ IntAccepts(a.rec_id) /\ r.id = ParseInt(a.rec_id)
          /\ r.workspace_id = ws.id /\ r.category = norm_cat(a.category)

Finishing(c, kind) == req'[c].kind = kind /\ req'[c].pc = "done" /\ req[c].pc # "done"

(* C10, as claimed: a delete request naming a record id that belongs to no
   record of its (workspace, category) changes no record and raises no
   error. *)
C10_DeleteMissIsNoOp ==
    [][\A c \in Clients :
          (Finishing(c, "records") /\ req'[c].args.action = "delete" /\ Miss(db, req'[c].args)) =>
              /\ db'.records = db.records
              /\ req'[c].out.status # "error"]_vars

(* the day of a workspace's last activity *)
LastActivity(w) == ParseInt(IF w.updated_at # NULL THEN w.updated_at ELSE w.created_at)

(* C8: the sweep removes exactly the workspaces whose last activity
   (updated_at, or created_at when updated_at is NULL) lies more than
   RETENTION_DAYS before now, keeps every other workspace and returns the
   number it removed. *)
C8_SweepRemovesExpired ==
    [][(boot.pc = "cleanup" /\ boot'.pc = "serving") =>
          /\ db'.workspaces \subseteq db.workspaces
          /\ \A w \in db.workspaces : (w \notin db'.workspaces) <=> (now - LastActivity(w) > RETENTION_DAYS)
          /\ boot'.n = Cardinality(db.workspaces \ db'.workspaces)]_vars

(* the sweep removed one workspace and kept one that was created 61 days
   ago but last active 59 days ago *)
C8_Witness ==
    /\ boot.pc = "serving" /\ boot.n = 1
    /\ \E w \in db.workspaces :
          /\ w.updated_at # NULL
          /\ now - ParseInt(w.updated_at) = RETENTION_DAYS - 1
          /\ now - ParseInt(w.created_at) = RETENTION_DAYS + 1

(* the first run of init_db found a legacy objectives table and finished *)
LegacyShapes == {"legacy", "legacy_cat"}
FoundLegacy ==
    /\ boot.run = 1
    /\ "objectives" \in boot.before.schema.tables
    /\ boot.before.schema.objectives \in LegacyShapes
Migrated == FoundLegacy /\ boot.pc = "done"

MigratedRow(o) ==
    [o EXCEPT !.category = IF boot.before.schema.objectives = "legacy" THEN Orientation ELSE @]

HasWorkspace(o) == \E w \in boot.before.db.workspaces : w.id = o.workspace_id

(* C6 as stated: after the migration of a legacy objectives table, the
   composite-key table holds exactly one row per legacy row and no others:
   every legacy row with workspace_id, target_date and teaching_goal
   unchanged, under orientation when the legacy table had no category column
   and under its own category otherwise. *)
C6_EveryLegacyRowCopied ==
    Migrated =>
       /\ schema.objectives = "composite"
       /\ db.objectives = {MigratedRow(o) : o \in boot.before.db.objectives}
       /\ Cardinality(db.objectives) = Cardinality(boot.before.db.objectives)

(* C6 amended: after the migration, the composite-key table holds exactly one
   row per legacy row whose workspace_id is the id of a workspace, fields
   unchanged and category as stated, and no others (legacy rows of no
   workspace are left out); when a legacy row of a workspace holds a NULL the
   startup raises and the legacy table is left as it was. *)
C6_LegacyRowsOfWorkspacesCopied ==
    /\ Migrated =>
         /\ schema.objectives = "composite"
         /\ db.objectives = {MigratedRow(o) : o \in {x \in boot.before.db.objectives : HasWorkspace(x)}}
         /\ Cardinality(db.objectives) = Cardinality({x \in boot.before.db.objectives : HasWorkspace(x)})
    /\ (FoundLegacy /\ boot.pc = "failed") =>
         /\ schema.objectives = boot.before.schema.objectives
         /\ db.objectives = boot.before.db.objectives

(* a legacy table with a category column was migrated: a row of a workspace
   kept its category daily_living, a row of no workspace was left out *)
C6_Witness ==
    /\ Migrated
    /\ boot.before.schema.objectives = "legacy_cat"
    /\ \E o \in db.objectives : o.category = DailyLiving /\ o.target_date = <<"d">>
    /\ \E o \in boot.before.db.objectives : ~HasWorkspace(o)

(* C7: a second run of init_db on a database whose first run finished raises
   no error and leaves every table's rows and the schema (the shape of the
   objectives table included) as the first run left them. *)
C7_SecondRunChangesNothing ==
    (boot.run = 2 /\ boot.first = "done") =>
       /\ boot.pc # "raise" /\ boot.pc # "failed"
       /\ boot.pc = "done" => (db = boot.before.db /\ schema = boot.before.schema)

(* the second run finished on a database that started legacy and holds
   migrated rows *)
C7_Witness ==
    /\ boot.run = 2 /\ boot.first = "done" /\ boot.pc = "done"
    /\ db.objectives # {}
    /\ db.long_term_groups # {}


(* the submission of c arrives: POST /objectives/<code> is called *)
Called(c, kind) == req[c].kind = "idle" /\ req'[c].kind = kind

(* no group index is submitted, or every submitted long-term text is blank
   after trimming *)
NothingToSave(form) == \A k \in DOMAIN form : ~NonBlank(form[k].lt)

(* C11: a save for an existing workspace whose form holds no group index, or
   only long-term texts that are blank after trimming, is rejected with the
   flash message and changes nothing: objectives, long_term_groups,
   short_terms and the workspace's updated_at are as before the call. *)
C11_RejectedSaveChangesNothing ==
    [][\A c \in Clients :
          (/\ Called(c, "objectives")
           /\ NothingToSave(req'[c].args.form)
           /\ get_workspace_by_code(db.workspaces, req'[c].args.code) # None) =>
              /\ req'[c].pc = "done" /\ req'[c].out.status = "flash"
              /\ db' = db
              /\ tx' = tx]_vars

(* a form whose only long-term text is blank, with short-term items, was
   rejected on a workspace that holds saved short-term items *)
C11_Witness ==
    /\ Finished(1, "objectives") /\ req[1].out.status = "flash"
    /\ LET f == req[1].args.form IN
       /\ DOMAIN f # {} /\ NothingToSave(f)
       /\ \E k \in DOMAIN f : f[k].st # <<>>
    /\ db.short_terms # {}

(* the objectives, groups, short-term items and records of a workspace *)
RowsOf(d, ws_id) ==
    LET gs == {g \in d.long_term_groups : g.workspace_id = ws_id} IN
    [objectives |-> {o \in d.objectives : o.workspace_id = ws_id},
     long_term_groups |-> gs,
     short_terms |-> {t \in d.short_terms : t.group_id \in {g.id : g \in gs}},
     records |-> {r \in d.records : r.workspace_id = ws_id}]

(* C12, as claimed: whenever the committed objectives, groups, short-term
   items or records of a workspace change, the workspace's updated_at is
   then no older than the time of the change. *)
C12_UpdatedAtFollowsMutations ==
    [][\A w \in db'.workspaces :
          RowsOf(db', w.id) # RowsOf(db, w.id) =>
              (w.updated_at # NULL /\ ~TextLess(w.updated_at, now_iso(now)))]_vars

(* the same for the changes that remove no record: saves and added records *)
UpdatedAtFollowsSavesAndAdds ==
    [][\A w \in db'.workspaces :
          (RowsOf(db', w.id) # RowsOf(db, w.id) /\ db.records \subseteq db'.records) =>
              (w.updated_at # NULL /\ ~TextLess(w.updated_at, now_iso(now)))]_vars

(* init_db is not running: it finished, raised, or was interrupted *)
AtRest == boot.pc \in {"done", "failed", "crashed"}

(* the database held a legacy objectives table before its first start *)
OriginLegacy ==
    /\ "objectives" \in boot.origin.schema.tables
    /\ boot.origin.schema.objectives \in LegacyShapes

(* the rows the migration copies: the legacy rows of existing workspaces *)
OriginCopied ==
    {[o EXCEPT !.category = IF boot.origin.schema.objectives = "legacy" THEN Orientation ELSE @] :
        o \in {x \in boot.origin.db.objectives :
                  \E w \in boot.origin.db.workspaces : w.id = x.workspace_id}}

(* C13, as claimed: whenever init_db has finished, raised or been
   interrupted, on its first start or a later one, the objectives table
   exists and is either the legacy table with all its rows or the migrated
   table with all copied rows. *)
C13_SwapAllOrNothing ==
    (AtRest /\ OriginLegacy) =>
       /\ "objectives" \in schema.tables
       /\ \/ /\ schema.objectives = boot.origin.schema.objectives
             /\ db.objectives = boot.origin.db.objectives
          \/ /\ schema.objectives = "composite"
             /\ db.objectives = OriginCopied

(* a start was interrupted between DROP TABLE objectives and the RENAME: the
   table is missing, or a later start has created it empty next to the
   table that holds the copied rows *)
CutAtRename ==
    \/ "objectives" \notin schema.tables
    \/ Tmp \in schema.tables /\ schema.objectives = "composite"

(* every other interruption or failure leaves the legacy table or the
   migrated table whole *)
SwapWholeUnlessCutAtRename ==
    (AtRest /\ OriginLegacy /\ ~CutAtRename) =>
       \/ /\ schema.objectives = boot.origin.schema.objectives
          /\ db.objectives = boot.origin.db.objectives
       \/ /\ schema.objectives = "composite"
          /\ db.objectives = OriginCopied

====
